---- MODULE Spec2Model ----
(***************************************************************************)
(* minigrep (src/src/lib.rs): Config::new, run, search and                 *)
(* search_case_insensitive.                                                *)
(*                                                                         *)
(* A Rust String is modelled as a sequence of characters, a character as   *)
(* a one-token string: "a", "A", "SIGMA" (U+03A3), "sigma" (U+03C3),       *)
(* "fsigma" (U+03C2, final sigma), "DOT" ('.'), "LF" ('\n'), "CR" ('\r').  *)
(***************************************************************************)
EXTENDS Naturals, Sequences, FiniteSets

VARIABLES
    args,        \* the argument list handed to Config::new
    env,         \* the CASE_INSENSITIVE entry of the process environment
    file,        \* what run found at the path it opened ("unopened" before)
    pc,          \* position of the program
    newResult,   \* the Result returned by Config::new
    config,      \* the Config handed to run: <<>> (none) or <<record>>
    contents,    \* run's local `contents`
    results,     \* run's local `results` (lib.rs:39)
    matches,     \* the vector the for loop of lib.rs:45 iterates
    stdout,      \* the lines written by println!
    runResult,   \* the Result returned by run
    fileReads,   \* number of fs::read_to_string calls so far
    searchCalls  \* number of search / search_case_insensitive calls so far

vars == <<args, env, file, pc, newResult, config, contents, results, matches,
          stdout, runResult, fileReads, searchCalls>>

---------------------------------------------------------------------------
(* Bounds of the model. *)

MaxQueryLen == 2
MaxContentLen == 3
MaxArgs == 4
MaxSmallLen == 1

\* The characters inputs are drawn from.
Chars == {"a", "A", "SIGMA", "DOT", "LF", "CR"}

Str(n) == UNION {[1..k -> Chars] : k \in 0..n}

---------------------------------------------------------------------------
(* The standard library operations the source calls. *)

\* core::unicode::Cased / Case_Ignorable, restricted to the model's characters.
Cased == {"a", "A", "SIGMA", "sigma", "fsigma"}
Case_Ignorable == {"DOT"}

Reverse(s) == [i \in 1..Len(s) |-> s[Len(s) + 1 - i]]

RECURSIVE case_ignorable_then_cased(_)
case_ignorable_then_cased(s) ==
    IF s = <<>> THEN FALSE
    ELSE IF Head(s) \in Case_Ignorable THEN case_ignorable_then_cased(Tail(s))
    ELSE Head(s) \in Cased

\* char::to_lowercase for every character but U+03A3.
lower_char(c) == IF c = "A" THEN "a" ELSE c

\* str::to_lowercase: character by character, except that U+03A3 becomes
\* the final sigma at the end of a word (Unicode Final_Sigma) and the
\* ordinary sigma elsewhere.
to_lowercase(s) ==
    [i \in 1..Len(s) |->
        IF s[i] = "SIGMA"
        THEN IF /\ case_ignorable_then_cased(Reverse(SubSeq(s, 1, i - 1)))
                /\ ~case_ignorable_then_cased(SubSeq(s, i + 1, Len(s)))
             THEN "fsigma" ELSE "sigma"
        ELSE lower_char(s[i])]

\* str::contains with a &str pattern.
contains(hay, needle) ==
    \E i \in 0..(Len(hay) - Len(needle)) :
        SubSeq(hay, i + 1, i + Len(needle)) = needle

strip_cr(l) ==
    IF l # <<>> /\ l[Len(l)] = "CR" THEN SubSeq(l, 1, Len(l) - 1) ELSE l

\* str::lines: split_inclusive('\n'); a piece ending in '\n' loses it and
\* then one '\r' before it; a last piece without '\n' is returned as it is.
RECURSIVE lines_loop(_, _, _, _)
lines_loop(s, i, cur, acc) ==
    IF i > Len(s) THEN (IF cur = <<>> THEN acc ELSE Append(acc, cur))
    ELSE IF s[i] = "LF" THEN lines_loop(s, i + 1, <<>>, Append(acc, strip_cr(cur)))
    ELSE lines_loop(s, i + 1, Append(cur, s[i]), acc)

lines_split(s) ==
    IF s = <<>> THEN << <<>> >> ELSE lines_loop(s, 1, <<>>, <<>>)

lines(s) == lines_loop(s, 1, <<>>, <<>>)

\* env::var("CASE_INSENSITIVE"): Err(NotPresent) when unset, Err(NotUnicode)
\* when set to a value that is not valid Unicode, Ok(value) otherwise.
env_var(e) ==
    IF ~e.set THEN [is_err |-> TRUE, err |-> "NotPresent"]
    ELSE IF ~e.unicode THEN [is_err |-> TRUE, err |-> "NotUnicode"]
    ELSE [is_err |-> FALSE, err |-> ""]

read_to_string_lossy(f) ==
    IF f.kind = "ok" \/ f.kind = "invalid_utf8"
    THEN [ok |-> TRUE, text |-> f.text, err |-> ""]
    ELSE [ok |-> FALSE, text |-> <<>>,
          err |-> IF f.kind = "missing" THEN "NotFound" ELSE "PermissionDenied"]

\* fs::read_to_string.
read_to_string(f) ==
    IF f.kind = "ok" THEN [ok |-> TRUE, text |-> f.text, err |-> ""]
    ELSE [ok |-> FALSE, text |-> <<>>,
          err |-> IF f.kind = "missing" THEN "NotFound"
                  ELSE IF f.kind = "denied" THEN "PermissionDenied"
                  ELSE "InvalidData"]

---------------------------------------------------------------------------
(* The functions of lib.rs. *)

NoResult == [ok |-> FALSE, config |-> <<>>, err |-> ""]

Get(a, i) == IF i <= Len(a) THEN a[i] ELSE <<>>

Config_new_unchecked(a, e) ==
    [ok |-> TRUE,
     config |-> << [query |-> Get(a, 2), filename |-> Get(a, 3),
                    case_sensitive |-> env_var(e).is_err] >>,
     err |-> ""]

Config_new_swapped(a, e) ==
    IF Len(a) < 3 THEN [ok |-> FALSE, config |-> <<>>, err |-> "Not enough arguments"]
    ELSE [ok |-> TRUE,
          config |-> << [query |-> a[3], filename |-> a[2],
                         case_sensitive |-> env_var(e).is_err] >>,
          err |-> ""]

\* Config::new; args[k] of the source is a[k + 1].
Config_new(a, e) ==
    IF Len(a) < 3 THEN [ok |-> FALSE, config |-> <<>>, err |-> "Not enough arguments"]
    ELSE [ok |-> TRUE,
          config |-> << [query |-> a[2], filename |-> a[3],
                         case_sensitive |-> env_var(e).is_err] >>,
          err |-> ""]

RECURSIVE search_loop(_, _, _)
search_loop(query, ls, acc) ==
    IF ls = <<>> THEN acc
    ELSE search_loop(query, Tail(ls),
                     IF contains(Head(ls), query) THEN Append(acc, Head(ls)) ELSE acc)

starts_with(hay, needle) ==
    Len(needle) <= Len(hay) /\ SubSeq(hay, 1, Len(needle)) = needle

RECURSIVE search_prefix_loop(_, _, _)
search_prefix_loop(query, ls, acc) ==
    IF ls = <<>> THEN acc
    ELSE search_prefix_loop(query, Tail(ls),
                     IF starts_with(Head(ls), query) THEN Append(acc, Head(ls)) ELSE acc)

search_prefix(query, text) == search_prefix_loop(query, lines(text), <<>>)

search_split(query, text) == search_loop(query, lines_split(text), <<>>)

\* search.
search(query, text) == search_loop(query, lines(text), <<>>)

RECURSIVE search_ci_loop(_, _, _)
search_ci_loop(query, ls, acc) ==
    IF ls = <<>> THEN acc
    ELSE search_ci_loop(query, Tail(ls),
                        IF contains(to_lowercase(Head(ls)), query)
                        THEN Append(acc, Head(ls)) ELSE acc)

search_case_insensitive_raw_query(query, text) ==
    search_ci_loop(query, lines(text), <<>>)

\* search_case_insensitive.
search_case_insensitive(query, text) ==
    search_ci_loop(to_lowercase(query), lines(text), <<>>)

---------------------------------------------------------------------------
(* The program's steps. *)

\* A call of Config::new on the process arguments.
CallConfigNew ==
    /\ pc = "start"
    /\ newResult' = Config_new(args, env)
    /\ config' = newResult'.config
    /\ pc' = IF newResult'.ok THEN "configured" ELSE "failed"
    /\ UNCHANGED <<args, env, file, contents, results, matches, stdout,
                   runResult, fileReads, searchCalls>>

\* run, lib.rs:37: read the file, which is in one of the states Files;
\* `?` returns the error.
RunRead(Files) ==
    /\ pc = "configured"
    /\ fileReads' = fileReads + 1
    /\ \E f \in Files :
         /\ file' = f
         /\ LET r == read_to_string(f) IN
              IF r.ok
              THEN /\ contents' = r.text
                   /\ pc' = "select"
                   /\ UNCHANGED runResult
              ELSE /\ runResult' = [ok |-> FALSE, err |-> r.err]
                   /\ pc' = "done"
                   /\ UNCHANGED contents
    /\ UNCHANGED <<args, env, newResult, config, results, matches, stdout,
                   searchCalls>>

\* run, lib.rs:39-43: `results`.
RunSelect ==
    /\ pc = "select"
    /\ results' = IF config[1].case_sensitive
                  THEN search(config[1].query, contents)
                  ELSE search_case_insensitive(config[1].query, contents)
    /\ searchCalls' = searchCalls + 1
    /\ pc' = "iterate"
    /\ UNCHANGED <<args, env, file, newResult, config, contents, matches, stdout,
                   runResult, fileReads>>

\* run, lib.rs:45: the vector the for loop iterates.
RunIterate ==
    /\ pc = "iterate"
    /\ matches' = search(config[1].query, contents)
    /\ searchCalls' = searchCalls + 1
    /\ pc' = "print"
    /\ UNCHANGED <<args, env, file, newResult, config, contents, results, stdout,
                   runResult, fileReads>>

\* run, lib.rs:45-47: one iteration of the for loop.
RunPrint ==
    /\ pc = "print"
    /\ Len(stdout) < Len(matches)
    /\ stdout' = Append(stdout, matches[Len(stdout) + 1])
    /\ UNCHANGED <<args, env, file, pc, newResult, config, contents, results,
                   matches, runResult, fileReads, searchCalls>>

\* run, lib.rs:49: Ok(()).
RunReturn ==
    /\ pc = "print"
    /\ Len(stdout) = Len(matches)
    /\ runResult' = [ok |-> TRUE, err |-> ""]
    /\ pc' = "done"
    /\ UNCHANGED <<args, env, file, newResult, config, contents, results, matches,
                   stdout, fileReads, searchCalls>>

---------------------------------------------------------------------------
(* Inputs. *)

EnvStates ==
    { [set |-> FALSE, unicode |-> TRUE, value |-> ""],
      [set |-> TRUE, unicode |-> TRUE, value |-> ""],
      [set |-> TRUE, unicode |-> TRUE, value |-> "1"],
      [set |-> TRUE, unicode |-> FALSE, value |-> "bytes"] }

Unopened == [kind |-> "unopened", text |-> <<>>]

ErrorKinds == {"missing", "denied", "invalid_utf8"}

FileStates(n) ==
    {[kind |-> k, text |-> <<>>] : k \in ErrorKinds}
    \cup {[kind |-> "ok", text |-> t] : t \in Str(n)}

ProgNames == {<<"a">>, <<"A", "a">>}
FileNames == {<<"a">>, <<"A">>}
ExtraArgs == {<<>>, <<"A">>}

\* The values argument k (0-based) is drawn from.
ArgChoices(k) ==
    IF k = 0 THEN ProgNames
    ELSE IF k = 1 THEN Str(MaxSmallLen)
    ELSE IF k = 2 THEN FileNames
    ELSE ExtraArgs

RECURSIVE ArgsOfLen(_)
ArgsOfLen(n) ==
    IF n = 0 THEN {<<>>}
    ELSE {Append(a, x) : a \in ArgsOfLen(n - 1), x \in ArgChoices(n - 1)}

ArgLists == UNION {ArgsOfLen(n) : n \in 0..MaxArgs}

Idle ==
    /\ contents = <<>>
    /\ results = <<>>
    /\ matches = <<>>
    /\ stdout = <<>>
    /\ runResult = [ok |-> FALSE, err |-> ""]
    /\ fileReads = 0
    /\ searchCalls = 0

\* The program started on an argument list.
Init ==
    /\ args \in ArgLists
    /\ env \in EnvStates
    /\ file = Unopened
    /\ pc = "start"
    /\ newResult = NoResult
    /\ config = <<>>
    /\ Idle

\* The states of the file a run of the whole program may find.
SmallFiles == FileStates(MaxSmallLen)

Next ==
    \/ CallConfigNew
    \/ RunRead(SmallFiles)
    \/ RunSelect \/ RunIterate \/ RunPrint \/ RunReturn

Spec == Init /\ [][Next]_vars

RunConfigs ==
    {<< [query |-> q, filename |-> <<"a">>, case_sensitive |-> b] >> :
        q \in Str(MaxQueryLen), b \in BOOLEAN}

\* The states of the file a call of run may find.
RunFiles == FileStates(MaxContentLen)

\* run called on a Config built by the caller (its fields are public).
InitRun ==
    /\ args = <<>>
    /\ env = [set |-> FALSE, unicode |-> TRUE, value |-> ""]
    /\ file = Unopened
    /\ pc = "configured"
    /\ newResult = NoResult
    /\ config \in RunConfigs
    /\ Idle

NextRun ==
    \/ RunRead(RunFiles)
    \/ RunSelect \/ RunIterate \/ RunPrint \/ RunReturn

SpecRun == InitRun /\ [][NextRun]_vars

---------------------------------------------------------------------------
(* Properties. *)

\* q occurs in l as a contiguous run of characters.
IsSubstring(q, l) ==
    \E i \in 1..(Len(l) + 1) :
        \A j \in 1..Len(q) : i + j - 1 <= Len(l) /\ l[i + j - 1] = q[j]

Query == config[1].query
Searched == searchCalls = 2

\* C1: search(Q, C) is exactly the lines of C that contain Q as a
\* case-sensitive substring: every returned line is a line of C containing
\* Q, every line of C containing Q is returned, and order and multiplicity
\* are those of C's line sequence.
C1_SearchExact ==
    Searched =>
        LET L == lines(contents) IN
        /\ \A k \in 1..Len(matches) :
              /\ IsSubstring(Query, matches[k])
              /\ \E i \in 1..Len(L) : L[i] = matches[k]
        /\ \A i \in 1..Len(L) :
              IsSubstring(Query, L[i]) => \E k \in 1..Len(matches) : matches[k] = L[i]
        /\ matches = SelectSeq(L, LAMBDA l : IsSubstring(Query, l))

\* A search with a non-empty query that keeps one line and drops another.
C1_Witness ==
    /\ Searched
    /\ Query # <<>>
    /\ Len(matches) = 1
    /\ Len(lines(contents)) = 2

\* C2 (as claimed): after a successful run the printed lines are those of
\* the search variant that case_sensitive selects.
C2_PrintsSelectedVariant ==
    (pc = "done" /\ runResult.ok) =>
        stdout = IF config[1].case_sensitive
                 THEN search(Query, contents)
                 ELSE search_case_insensitive(Query, contents)

\* C3: search_case_insensitive(Q, C) is, in order, exactly the lines L of C
\* whose lowercased text contains the lowercased Q, returned as the original
\* text.
C3_InsensitiveExact ==
    (searchCalls >= 1 /\ ~config[1].case_sensitive) =>
        LET L == lines(contents) IN
        /\ results = SelectSeq(L, LAMBDA l :
                         IsSubstring(to_lowercase(Query), to_lowercase(l)))
        /\ \A k \in 1..Len(results) : \E i \in 1..Len(L) : L[i] = results[k]

\* An insensitive search whose query and returned line both change under
\* lowercasing, with a line left out.
C3_Witness ==
    /\ searchCalls >= 1
    /\ ~config[1].case_sensitive
    /\ to_lowercase(Query) # Query
    /\ Len(results) = 1
    /\ to_lowercase(results[1]) # results[1]
    /\ Len(lines(contents)) = 2

\* C4: an argument list shorter than 3 makes Config::new fail with the
\* insufficient-arguments error, with no Config and no file read.
C4_TooFewArgs ==
    (pc # "start" /\ Len(args) < 3) =>
        /\ newResult = [ok |-> FALSE, config |-> <<>>, err |-> "Not enough arguments"]
        /\ config = <<>>
        /\ pc = "failed"
        /\ fileReads = 0
        /\ stdout = <<>>

C4_Witness == pc = "failed" /\ Len(args) = 2 /\ newResult.err # ""

\* C5: an argument list of 3 or more makes Config::new succeed with query =
\* element 1 and filename = element 2; nothing else of the list enters the
\* Config, and the file is not touched by the construction.
C5_ConfigFields ==
    (pc # "start" /\ Len(args) >= 3) =>
        /\ newResult.ok
        /\ newResult.err = ""
        /\ newResult.config =
              << [query |-> args[2], filename |-> args[3],
                  case_sensitive |-> env_var(env).is_err] >>
        /\ config = newResult.config
        /\ (pc = "configured" => fileReads = 0)

\* A Config built from a list with an extra element, for a path at which
\* run then finds no file.
C5_Witness ==
    /\ newResult.ok
    /\ Len(args) = 4
    /\ args[2] # args[3]
    /\ file.kind = "missing"

\* C6 (as claimed): case_sensitive is false exactly when the toggle is
\* present in the environment, whatever its value.
C6_TogglePresence ==
    (pc # "start" /\ newResult.ok) =>
        newResult.config[1].case_sensitive = ~env.set

\* C7: when the file cannot be read, run returns the read error, no search
\* has been called and nothing has been written.
C7_ReadError ==
    file.kind \in ErrorKinds =>
        /\ searchCalls = 0
        /\ stdout = <<>>
        /\ fileReads = 1
        /\ pc = "done"
        /\ ~runResult.ok
        /\ runResult.err =
              (IF file.kind = "missing" THEN "NotFound"
               ELSE IF file.kind = "denied" THEN "PermissionDenied"
               ELSE "InvalidData")

C7_Witness == pc = "done" /\ file.kind = "invalid_utf8" /\ fileReads = 1

\* C8 (as claimed): for a non-empty query, every line search returns is
\* also returned by search_case_insensitive, which never returns fewer.
C8_InsensitiveSuperset ==
    (Searched /\ ~config[1].case_sensitive /\ Query # <<>>) =>
        /\ \A k \in 1..Len(matches) : \E j \in 1..Len(results) : results[j] = matches[k]
        /\ Len(results) >= Len(matches)

\* C9: the empty query returns every line in order, and the empty content
\* returns the empty sequence for every query.
C9_EmptyQueryEmptyContent ==
    Searched =>
        /\ (Query = <<>> => matches = lines(contents))
        /\ (contents = <<>> => matches = <<>>)

C9_Witness ==
    /\ Searched
    /\ Query = <<>>
    /\ Len(matches) = 2
    /\ matches[1] # matches[2]

\* C10 (as claimed): after a successful read run never stops short, and it
\* ends having printed every line of the selected search and returning Ok.
C10_CompletesSelected ==
    (file.kind = "ok" /\ fileReads = 1) =>
        /\ (pc = "done" \/ ENABLED NextRun)
        /\ (pc = "done" => runResult.ok /\ stdout = results)

\* What holds of run after a successful read: it never stops short, and it
\* ends having printed the lines of search and returning Ok.
RunCompletes ==
    (file.kind = "ok" /\ fileReads = 1) =>
        /\ (pc = "done" \/ ENABLED NextRun)
        /\ (pc = "done" => runResult.ok /\ stdout = matches)

====
